---- MODULE Spec2Model ----
(***************************************************************************)
(* The Slack-to-JIRA ticketing graph: the LangGraph state machine of       *)
(* src/src/graph.py, its node functions (src/src/nodes.py), the mock Slack *)
(* and JIRA collaborators (src/src/tools.py) and the two drivers that      *)
(* consume the graph's stream (src/main.py, src/eval.py).                  *)
(*                                                                         *)
(* Python values are represented as follows.                               *)
(*   Optional[T]   None is <<>>, a present value v is <<v>>                *)
(*   message text  a sequence of tokens; `m in text` is token membership   *)
(*   f-strings     a record or sequence of the interpolated pieces         *)
(*   dict update   a record holding exactly the returned keys              *)
(***************************************************************************)
EXTENDS Integers, Sequences, FiniteSets, TLC

VARIABLES
    state,        \* the graph's channel values (GraphState)
    pc,           \* the node the graph runs next, "END", or "raised"
    stream,       \* the chunks app.stream() has yielded so far
    calls,        \* how often each collaborator operation was called, and
                  \* (raised) how many of these calls raised
    sleeps,       \* the durations passed to time.sleep, in call order
    tickets,      \* MockJiraClient.tickets
    ticket_counter, \* MockJiraClient._ticket_counter
    failure_rate, \* MockJiraClient.failure_rate (0 = 0.0, 1 = positive)
    create_results, \* what create_ticket returned, in call order
    verify_results, \* what verify_ticket_exists returned, in call order
    store_mode,   \* "shipped": the module's own store; "injected": a test double
    threads,      \* the callers that are inside create_ticket concurrently
    store_calls,  \* the arguments of the calls made to the store, in call order
    llm_results   \* what the chains' invoke returned, in call order

vars == <<state, pc, stream, calls, sleeps, tickets, ticket_counter,
          failure_rate, create_results, verify_results, store_mode, threads, store_calls, llm_results>>

-----------------------------------------------------------------------------
(* Bounds of the model *)

\* tickets left in the shared store by earlier runs
MaxPriorTickets == 1

-----------------------------------------------------------------------------
(* Configuration *)

MAX_INFERENCE_ATTEMPTS == 2
MAX_JIRA_RETRIES == 5
\* MockJiraClient.__init__: self._ticket_counter = 1000
InitialTicketCounter == 1000
\* create_jira_ticket: time.sleep(min(delay, 5))
SleepCap == 5

-----------------------------------------------------------------------------
(* Python helpers *)

None == <<>>
Some(v) == <<v>>

\* Python truthiness of an Optional[str]: None and "" are falsy
Truthy(opt) == opt # None /\ opt[1] # ""

\* `marker in text` over token sequences
Contains(text, marker) == \E i \in DOMAIN text : text[i] = marker

Pow2(n) == IF n = 0 THEN 1
           ELSE IF n = 1 THEN 2
           ELSE IF n = 2 THEN 4
           ELSE IF n = 3 THEN 8
           ELSE IF n = 4 THEN 16
           ELSE IF n = 5 THEN 32
           ELSE 64

Min(a, b) == IF a < b THEN a ELSE b

RECURSIVE Join(_, _)
\* sep.join(items), as the sequence of its pieces
Join(items, sep) ==
    IF Len(items) = 0 THEN <<>>
    ELSE IF Len(items) = 1 THEN <<items[1]>>
    ELSE <<items[1], sep>> \o Join(Tail(items), sep)

RECURSIVE Sum(_)
Sum(seq) == IF seq = <<>> THEN 0 ELSE Head(seq) + Sum(Tail(seq))

-----------------------------------------------------------------------------
(* Inputs *)

ValidChannel == "servicecore-mobile-errors"
Channels == {ValidChannel, "general"}

\* str.lower() on the tokens used here
LowerToken(tok) ==
    CASE tok = "Triggered:" -> "triggered:"
      [] tok = "RUM errors" -> "rum errors"
      [] tok = "@slack-ServiceCore" -> "@slack-servicecore"
      [] OTHER -> tok

Lower(text) == [i \in DOMAIN text |-> LowerToken(text[i])]

Messages ==
    { <<"Triggered:", "High number of errors in RUM on", "@issue.id:", "e1266418">>,
      <<"Recovered:", "RUM errors", "@issue.id:", "abc123">>,
      <<"@slack-ServiceCore", "was > 20 during the last 5m">>,
      <<"RUM errors", "are up today">>,
      <<"Hey team, can someone look at the login bug?">> }

\* what the LLM may return for ExtractedTicketInfo / InferredFields
TicketInfos ==
    { [title |-> "Error", description |-> "", labels |-> <<>>],
      [title |-> "TypeError in job view", description |-> "## Error",
       labels |-> <<"bug", "mobile">>],
      [title |-> "TypeError in job view", description |-> "## Error ## Stack Trace",
       labels |-> <<"bug", "mobile", "rum">>] }

\* error texts a store may report on a failed create
ShippedError == "JIRA API temporarily unavailable"
ErrorTexts == {ShippedError, "JIRA rate limit exceeded"}

\* "shipped": the nodes reach the module's MockJiraClient through
\* get_jira_client(), which sets failure_rate to its default first.
\* "injected": the store is a double that honours the Ticket Store contract
\* (create returns success or a failure with an error text, verify_exists
\* returns exists true or false) and may fail any call.
StoreModes == {"shipped", "injected"}

-----------------------------------------------------------------------------
(* GraphState and the merge of a node's update *)

Keys == {"raw_message", "channel", "source", "is_valid_source", "ticket_info",
         "is_complete", "inference_attempts", "jira_ticket_id",
         "jira_ticket_url", "retry_count", "error_message", "final_response"}

EmptyResponse == [kind |-> "empty"]

\* the initial_state literal of run_graph / run_single_eval
initial_state(message, channel) ==
    [raw_message |-> message,
     channel |-> channel,
     source |-> "",
     is_valid_source |-> FALSE,
     ticket_info |-> None,
     is_complete |-> FALSE,
     inference_attempts |-> 0,
     jira_ticket_id |-> None,
     jira_ticket_url |-> None,
     retry_count |-> 0,
     error_message |-> None,
     final_response |-> EmptyResponse]

\* variant: keys absent from the update fall back to their defaults
MergeResetting(s, update) ==
    [k \in DOMAIN s |->
        IF k \in DOMAIN update THEN update[k]
        ELSE IF k \in {"raw_message", "channel"} THEN s[k]
        ELSE initial_state(s.raw_message, s.channel)[k]]

\* dict.update: keys of the update overwrite, all other keys are kept
Merge(s, update) ==
    [k \in DOMAIN s |-> IF k \in DOMAIN update THEN update[k] ELSE s[k]]

-----------------------------------------------------------------------------
(* MockSlackClient *)

\* variant: either check suffices
validate_message_either(message, channel) ==
    LET is_datadog ==
            \/ Contains(message, "Triggered:")
            \/ Contains(message, "@issue.id:")
            \/ Contains(Lower(message), "RUM errors")
            \/ Contains(message, "@slack-ServiceCore")
        is_valid_channel == channel = ValidChannel
    IN  [is_valid |-> is_datadog \/ is_valid_channel,
         source |-> IF is_datadog THEN "datadog" ELSE "unknown",
         channel_valid |-> is_valid_channel,
         source_valid |-> is_datadog]

validate_message(message, channel) ==
    LET is_datadog ==
            \/ Contains(message, "Triggered:")
            \/ Contains(message, "@issue.id:")
            \/ Contains(Lower(message), "RUM errors")
            \/ Contains(message, "@slack-ServiceCore")
        is_valid_channel == channel = ValidChannel
    IN  [is_valid |-> is_datadog /\ is_valid_channel,
         source |-> IF is_datadog THEN "datadog" ELSE "unknown",
         channel_valid |-> is_valid_channel,
         source_valid |-> is_datadog]

-----------------------------------------------------------------------------
(* MockJiraClient *)

\* f"{project}-{ticket_id}" and f"https://jira.example.com/browse/{ticket_key}"
TicketKey(project, n) == <<project, "-", n>>
TicketUrl(key) == <<"https://jira.example.com/browse/">> \o key

\* the registry after earlier runs created n tickets
PriorTickets(n) ==
    [k \in {TicketKey("MOBILE", InitialTicketCounter + i) : i \in 1..n} |->
        [id |-> k[3], key |-> k, url |-> TicketUrl(k), title |-> "earlier",
         description |-> "", labels |-> <<"bug", "mobile">>,
         project |-> "MOBILE", status |-> "Open"]]

\* get_jira_client(failure_rate=0.0): the rate the shared store has afterwards
get_jira_client(rate) == rate

\* the failure results create_ticket can return: `random.random() <
\* self.failure_rate` can only hold for a positive rate; a test double
\* fails at will, with any error text
CreateFailures(mode, rate) ==
    IF mode = "injected"
    THEN {[success |-> FALSE, error |-> e] : e \in ErrorTexts}
    ELSE IF rate > 0 THEN {[success |-> FALSE, error |-> ShippedError]}
    ELSE {}

\* the success result of create_ticket with the counter at `counter`
CreateSuccess(project, counter) ==
    LET ticket_id == counter + 1
        ticket_key == TicketKey(project, ticket_id)
    IN  [success |-> TRUE, ticket_id |-> ticket_id, ticket_key |-> ticket_key,
         ticket_url |-> TicketUrl(ticket_key)]

\* the arguments create_jira_ticket passes to create_ticket
CreateCall(project, info, issue_type) ==
    [op |-> "create_ticket", project |-> project, title |-> info.title,
     description |-> info.description, labels |-> info.labels,
     issue_type |-> issue_type]

\* the argument verify_ticket passes to verify_ticket_exists
VerifyCall(ticket_key) == [op |-> "verify_ticket_exists", ticket_key |-> ticket_key]

\* variant: the registry is rebuilt around the new ticket
StoreTicket_replaces(reg, project, counter, info, issue_type) ==
    LET r == CreateSuccess(project, counter)
        ticket == [id |-> r.ticket_id, key |-> r.ticket_key, url |-> r.ticket_url,
                   title |-> info.title, description |-> info.description,
                   labels |-> info.labels, project |-> project, status |-> "Open"]
    IN  [k \in {r.ticket_key} |-> ticket]

\* self.tickets[ticket_key] = ticket
StoreTicket(reg, project, counter, info, issue_type) ==
    LET r == CreateSuccess(project, counter)
        ticket == [id |-> r.ticket_id, key |-> r.ticket_key, url |-> r.ticket_url,
                   title |-> info.title, description |-> info.description,
                   labels |-> info.labels, project |-> project, status |-> "Open"]
    IN  [k \in DOMAIN reg \cup {r.ticket_key} |->
            IF k = r.ticket_key THEN ticket ELSE reg[k]]

\* the results verify_ticket_exists can return for a key
VerifyResults(mode, reg, key) ==
    IF mode = "injected"
    THEN {[exists |-> TRUE], [exists |-> FALSE]}
    ELSE {[exists |-> key # None /\ key[1] \in DOMAIN reg]}

-----------------------------------------------------------------------------
(* Node functions: each returns the dict of the keys it updates *)

validate_source(s) ==
    LET validation == validate_message(s.raw_message, s.channel)
    IN  [is_valid_source |-> validation.is_valid,
         source |-> validation.source]

\* variant: an extraction without labels is taken as no ticket information
extract_ticket_info_drops_unlabelled(s, result) ==
    [ticket_info |-> IF result.labels = <<>>
                     THEN None
                     ELSE Some([title |-> result.title,
                                description |-> result.description,
                                labels |-> result.labels])]

extract_ticket_info(s, result) ==
    [ticket_info |-> Some([title |-> result.title,
                           description |-> result.description,
                           labels |-> result.labels])]

\* variant: the LLM is asked whatever ticket_info is
check_completeness_calls_llm_always(s) == TRUE

\* check_completeness calls the LLM only when ticket_info is not None
check_completeness_calls_llm(s) == s.ticket_info # None

check_completeness(s, result) ==
    IF s.ticket_info = None
    THEN [is_complete |-> FALSE]
    ELSE [is_complete |-> result]

\* variant: fields the result leaves empty are kept from the previous value
infer_missing_info_merges_fields(s, result) ==
    LET old == IF s.ticket_info = None
               THEN [title |-> "", description |-> "", labels |-> <<>>]
               ELSE s.ticket_info[1]
    IN  [ticket_info |->
            Some([title |-> IF result.title = "" THEN old.title ELSE result.title,
                  description |-> IF result.description = ""
                                  THEN old.description ELSE result.description,
                  labels |-> IF result.labels = <<>>
                             THEN old.labels ELSE result.labels]),
         inference_attempts |-> s.inference_attempts + 1]

\* variant: a result without labels is taken as no ticket information
infer_missing_info_drops_unlabelled(s, result) ==
    [ticket_info |-> IF result.labels = <<>>
                     THEN None
                     ELSE Some([title |-> result.title,
                                description |-> result.description,
                                labels |-> result.labels]),
     inference_attempts |-> s.inference_attempts + 1]

infer_missing_info(s, result) ==
    [ticket_info |-> Some([title |-> result.title,
                           description |-> result.description,
                           labels |-> result.labels]),
     inference_attempts |-> s.inference_attempts + 1]

\* variant: the pause is not capped
BackoffSleeps_uncapped(retry_count) ==
    IF retry_count > 0
    THEN <<Pow2(retry_count)>>
    ELSE <<>>

\* the pause before the store call, as the sequence of time.sleep arguments
BackoffSleeps(retry_count) ==
    IF retry_count > 0
    THEN <<Min(Pow2(retry_count), SleepCap)>>
    ELSE <<>>

\* variant: a successful create starts the retry count afresh
create_jira_ticket_resets_retries(s, result) ==
    IF result.success
    THEN [jira_ticket_id |-> Some(result.ticket_key),
          jira_ticket_url |-> Some(result.ticket_url),
          error_message |-> None,
          retry_count |-> 0]
    ELSE [error_message |-> Some(result.error),
          retry_count |-> s.retry_count + 1]

\* variant: every attempt counts as a retry, the successful one too
create_jira_ticket_counts_success(s, result) ==
    IF result.success
    THEN [jira_ticket_id |-> Some(result.ticket_key),
          jira_ticket_url |-> Some(result.ticket_url),
          error_message |-> None,
          retry_count |-> s.retry_count + 1]
    ELSE [error_message |-> Some(result.error),
          retry_count |-> s.retry_count + 1]

\* variant: the create stage starts the inference count afresh
create_jira_ticket_resets_inference(s, result) ==
    IF result.success
    THEN [jira_ticket_id |-> Some(result.ticket_key),
          jira_ticket_url |-> Some(result.ticket_url),
          error_message |-> None,
          retry_count |-> s.retry_count,
          inference_attempts |-> 0]
    ELSE [error_message |-> Some(result.error),
          retry_count |-> s.retry_count + 1,
          inference_attempts |-> 0]

\* variant: a success leaves the error of an earlier failure in place
create_jira_ticket_keeps_error(s, result) ==
    IF result.success
    THEN [jira_ticket_id |-> Some(result.ticket_key),
          jira_ticket_url |-> Some(result.ticket_url),
          retry_count |-> s.retry_count]
    ELSE [error_message |-> Some(result.error),
          retry_count |-> s.retry_count + 1]

\* variant: a failed create is counted but its error is not recorded
create_jira_ticket_drops_error(s, result) ==
    IF result.success
    THEN [jira_ticket_id |-> Some(result.ticket_key),
          jira_ticket_url |-> Some(result.ticket_url),
          error_message |-> None,
          retry_count |-> s.retry_count]
    ELSE [retry_count |-> s.retry_count + 1]

create_jira_ticket(s, result) ==
    IF result.success
    THEN [jira_ticket_id |-> Some(result.ticket_key),
          jira_ticket_url |-> Some(result.ticket_url),
          error_message |-> None,
          retry_count |-> s.retry_count]
    ELSE [error_message |-> Some(result.error),
          retry_count |-> s.retry_count + 1]

VerificationFailed == "Ticket verification failed - ticket not found"

\* variant: the verification result is not looked at
verify_ticket_ignores_result(s, result) == [error_message |-> None]

\* variant: a ticket that is not found is dropped from the state
verify_ticket_drops_ticket(s, result) ==
    IF result.exists
    THEN [error_message |-> None]
    ELSE [error_message |-> Some(VerificationFailed),
          jira_ticket_id |-> None, jira_ticket_url |-> None]

verify_ticket(s, result) ==
    IF result.exists
    THEN [error_message |-> None]
    ELSE [error_message |-> Some(VerificationFailed)]

\* the three texts format_response can produce
FailedResponse(error) == [kind |-> "Failed to create ticket: ", error |-> error]
CreatedResponse(key, url, info) ==
    [kind |-> "JIRA ticket created successfully!", ticket |-> key, url |-> url,
     title |-> info.title, labels |-> Join(info.labels, ", ")]
UnknownResponse == [kind |-> "Unknown error occurred during ticket creation."]

\* format_response subscripts ticket_info in the success branch
format_response_raises(s) ==
    /\ ~Truthy(s.error_message)
    /\ s.jira_ticket_id # None /\ s.jira_ticket_url # None
    /\ s.ticket_info = None

\* variant: the ticket is looked at before the error
format_response_ticket_first(s) ==
    IF s.jira_ticket_id # None /\ s.jira_ticket_url # None
    THEN IF Truthy(s.error_message)
         THEN [final_response |-> FailedResponse(s.error_message[1])]
         ELSE [final_response |->
                 CreatedResponse(s.jira_ticket_id[1], s.jira_ticket_url[1],
                                 s.ticket_info[1])]
    ELSE [final_response |-> UnknownResponse]

\* variant: a response that is already there is kept and marked
format_response_reads_final(s) ==
    IF s.final_response # EmptyResponse
    THEN [final_response |-> UnknownResponse]
    ELSE IF Truthy(s.error_message)
    THEN [final_response |-> FailedResponse(s.error_message[1])]
    ELSE IF s.jira_ticket_id # None /\ s.jira_ticket_url # None
    THEN [final_response |->
            CreatedResponse(s.jira_ticket_id[1], s.jira_ticket_url[1],
                            s.ticket_info[1])]
    ELSE [final_response |-> UnknownResponse]

\* variant: formatting also clears the error it has reported
format_response_clears_error(s) ==
    IF Truthy(s.error_message)
    THEN [final_response |-> FailedResponse(s.error_message[1]),
          error_message |-> None]
    ELSE IF s.jira_ticket_id # None /\ s.jira_ticket_url # None
    THEN [final_response |->
            CreatedResponse(s.jira_ticket_id[1], s.jira_ticket_url[1],
                            s.ticket_info[1])]
    ELSE [final_response |-> UnknownResponse]

format_response(s) ==
    IF Truthy(s.error_message)
    THEN [final_response |-> FailedResponse(s.error_message[1])]
    ELSE IF s.jira_ticket_id # None /\ s.jira_ticket_url # None
    THEN [final_response |->
            CreatedResponse(s.jira_ticket_id[1], s.jira_ticket_url[1],
                            s.ticket_info[1])]
    ELSE [final_response |-> UnknownResponse]

RejectedResponse(source, channel) ==
    [kind |-> "Message rejected: ", source |-> source, channel |-> channel]

\* variant: the rejection is reported without recording an error
handle_invalid_source_no_error(s) ==
    [final_response |-> RejectedResponse(s.source, s.channel)]

handle_invalid_source(s) ==
    [final_response |-> RejectedResponse(s.source, s.channel),
     error_message |-> Some("Invalid source")]

-----------------------------------------------------------------------------
(* Routing functions and edges of build_graph *)

\* variant: the graph starts at the extraction node
entry_point_extract == "extract_ticket_info"
entry_point == "validate_source"

\* variant: the validation verdict is ignored
route_after_validation_always_extract(s) == "extract_ticket_info"

route_after_validation(s) ==
    IF s.is_valid_source THEN "extract_ticket_info" ELSE "handle_invalid_source"

\* variant: the attempt bound is inclusive
route_after_completeness_inclusive(s) ==
    IF s.is_complete THEN "create_jira_ticket"
    ELSE IF s.inference_attempts <= MAX_INFERENCE_ATTEMPTS THEN "infer_missing_info"
    ELSE "create_jira_ticket"

\* variant: incomplete fields after the last attempt end the run
route_after_completeness_gives_up(s) ==
    IF s.is_complete THEN "create_jira_ticket"
    ELSE IF s.inference_attempts < MAX_INFERENCE_ATTEMPTS THEN "infer_missing_info"
    ELSE "format_response"

route_after_completeness(s) ==
    IF s.is_complete THEN "create_jira_ticket"
    ELSE IF s.inference_attempts < MAX_INFERENCE_ATTEMPTS THEN "infer_missing_info"
    ELSE "create_jira_ticket"

\* variant: the retry bound is inclusive
route_after_jira_create_inclusive(s) ==
    IF s.error_message = None /\ s.jira_ticket_id # None THEN "verify_ticket"
    ELSE IF s.retry_count <= MAX_JIRA_RETRIES THEN "create_jira_ticket"
    ELSE "format_response"

\* variant: the create loop has no bound
route_after_jira_create_unbounded(s) ==
    IF s.error_message = None /\ s.jira_ticket_id # None THEN "verify_ticket"
    ELSE "create_jira_ticket"

\* variant: a created ticket is not verified
route_after_jira_create_skips_verify(s) ==
    IF s.error_message = None /\ s.jira_ticket_id # None THEN "format_response"
    ELSE IF s.retry_count < MAX_JIRA_RETRIES THEN "create_jira_ticket"
    ELSE "format_response"

route_after_jira_create(s) ==
    IF s.error_message = None /\ s.jira_ticket_id # None THEN "verify_ticket"
    ELSE IF s.retry_count < MAX_JIRA_RETRIES THEN "create_jira_ticket"
    ELSE "format_response"

edge_after_extract == "check_completeness"
\* variant: inference goes straight to ticket creation
edge_after_infer_to_create == "create_jira_ticket"
edge_after_infer == "check_completeness"
edge_after_verify == "format_response"
\* variant: the rejection node is wired to the formatter
edge_after_handle_invalid_source_to_format == "format_response"
edge_after_handle_invalid_source == "END"
edge_after_format == "END"

-----------------------------------------------------------------------------
(* The graph runtime: run a node, merge its update, yield it, follow the edge *)

\* what one chain.invoke returned
LlmResult(op, result) == [op |-> op, result |-> result]

Chunk(node, update) == [node |-> node, update |-> update]

NoCalls == [validate_message |-> 0, parse_datadog_message |-> 0, extract |-> 0,
            assess |-> 0, infer |-> 0, create_ticket |-> 0,
            verify_ticket_exists |-> 0, raised |-> 0]

\* the default of get_jira_client's failure_rate parameter
DefaultFailureRate == 0

\* variant: the node uses the store as it was configured
RateAfterGet_configured == failure_rate

\* the store's failure rate once a node has fetched the client
RateAfterGet == IF store_mode = "shipped"
                THEN get_jira_client(DefaultFailureRate)
                ELSE failure_rate

Init ==
    /\ \E message \in Messages, channel \in Channels :
          state = initial_state(message, channel)
    /\ pc = entry_point
    /\ stream = <<>>
    /\ calls = NoCalls
    /\ sleeps = <<>>
    /\ \E n \in 0..MaxPriorTickets :
          /\ ticket_counter = InitialTicketCounter + n
          /\ tickets = PriorTickets(n)
    /\ failure_rate \in {0, 1}
    /\ create_results = <<>>
    /\ verify_results = <<>>
    /\ store_mode \in StoreModes
    /\ threads = <<>>
    /\ store_calls = <<>>
    /\ llm_results = <<>>

ValidateSource ==
    /\ pc = "validate_source"
    /\ LET update == validate_source(state)
           merged == Merge(state, update)
       IN  /\ state' = merged
           /\ stream' = Append(stream, Chunk("validate_source", update))
           /\ pc' = route_after_validation(merged)
    /\ calls' = [calls EXCEPT !.validate_message = @ + 1]
    /\ UNCHANGED <<sleeps, tickets, ticket_counter, failure_rate, create_results,
                   verify_results, store_mode, threads, store_calls, llm_results>>

ExtractTicketInfo ==
    /\ pc = "extract_ticket_info"
    /\ \E result \in TicketInfos :
          LET update == extract_ticket_info(state, result)
          IN  /\ state' = Merge(state, update)
              /\ stream' = Append(stream, Chunk("extract_ticket_info", update))
              /\ llm_results' = Append(llm_results, LlmResult("extract", result))
    /\ pc' = edge_after_extract
    /\ calls' = [calls EXCEPT !.parse_datadog_message = @ + 1, !.extract = @ + 1]
    /\ UNCHANGED <<sleeps, tickets, ticket_counter, failure_rate, create_results,
                   verify_results, store_mode, threads, store_calls>>

\* variant: the node swallows the exception and the graph goes on
ExtractRaises_swallowed ==
    /\ pc = "extract_ticket_info"
    /\ pc' = edge_after_extract
    /\ calls' = [calls EXCEPT !.parse_datadog_message = @ + 1, !.extract = @ + 1,
                              !.raised = @ + 1]
    /\ UNCHANGED <<state, stream, sleeps, tickets, ticket_counter, failure_rate,
                   create_results, verify_results, store_mode, threads, store_calls, llm_results>>

\* chain.invoke raises: the exception leaves the node and the graph
ExtractRaises ==
    /\ pc = "extract_ticket_info"
    /\ pc' = "raised"
    /\ calls' = [calls EXCEPT !.parse_datadog_message = @ + 1, !.extract = @ + 1,
                              !.raised = @ + 1]
    /\ UNCHANGED <<state, stream, sleeps, tickets, ticket_counter, failure_rate,
                   create_results, verify_results, store_mode, threads, store_calls, llm_results>>

CheckCompleteness ==
    /\ pc = "check_completeness"
    /\ \E result \in BOOLEAN :
          LET update == check_completeness(state, result)
              merged == Merge(state, update)
          IN  /\ state' = merged
              /\ stream' = Append(stream, Chunk("check_completeness", update))
              /\ pc' = route_after_completeness(merged)
              /\ llm_results' = IF check_completeness_calls_llm(state)
                                THEN Append(llm_results, LlmResult("assess", result))
                                ELSE llm_results
    /\ calls' = IF check_completeness_calls_llm(state)
                THEN [calls EXCEPT !.assess = @ + 1]
                ELSE calls
    /\ UNCHANGED <<sleeps, tickets, ticket_counter, failure_rate, create_results,
                   verify_results, store_mode, threads, store_calls>>

CheckCompletenessRaises ==
    /\ pc = "check_completeness"
    /\ check_completeness_calls_llm(state)
    /\ pc' = "raised"
    /\ calls' = [calls EXCEPT !.assess = @ + 1, !.raised = @ + 1]
    /\ UNCHANGED <<state, stream, sleeps, tickets, ticket_counter, failure_rate,
                   create_results, verify_results, store_mode, threads, store_calls, llm_results>>

InferMissingInfo ==
    /\ pc = "infer_missing_info"
    /\ \E result \in TicketInfos :
          LET update == infer_missing_info(state, result)
          IN  /\ state' = Merge(state, update)
              /\ stream' = Append(stream, Chunk("infer_missing_info", update))
              /\ llm_results' = Append(llm_results, LlmResult("infer", result))
    /\ pc' = edge_after_infer
    /\ calls' = [calls EXCEPT !.infer = @ + 1]
    /\ UNCHANGED <<sleeps, tickets, ticket_counter, failure_rate, create_results,
                   verify_results, store_mode, threads, store_calls>>

InferRaises ==
    /\ pc = "infer_missing_info"
    /\ pc' = "raised"
    /\ calls' = [calls EXCEPT !.infer = @ + 1, !.raised = @ + 1]
    /\ UNCHANGED <<state, stream, sleeps, tickets, ticket_counter, failure_rate,
                   create_results, verify_results, store_mode, threads, store_calls, llm_results>>

CreateJiraTicket ==
    /\ pc = "create_jira_ticket"
    /\ failure_rate' = RateAfterGet
    /\ sleeps' = sleeps \o BackoffSleeps(state.retry_count)
    /\ IF state.ticket_info = None
       THEN \* ticket_info["title"] raises TypeError before the store is called
            /\ pc' = "raised"
            /\ UNCHANGED <<state, stream, calls, tickets, ticket_counter,
                           create_results, store_calls, llm_results>>
       ELSE \E result \in CreateFailures(store_mode, RateAfterGet)
                            \cup {CreateSuccess("MOBILE", ticket_counter)} :
              LET update == create_jira_ticket(state, result)
                  merged == Merge(state, update)
              IN  /\ state' = merged
                  /\ stream' = Append(stream, Chunk("create_jira_ticket", update))
                  /\ pc' = route_after_jira_create(merged)
                  /\ calls' = [calls EXCEPT !.create_ticket = @ + 1]
                  /\ create_results' = Append(create_results, result)
                  /\ store_calls' = Append(store_calls,
                                           CreateCall("MOBILE", state.ticket_info[1], "Bug"))
                  /\ IF result.success
                     THEN /\ ticket_counter' = ticket_counter + 1
                          /\ tickets' = StoreTicket(tickets, "MOBILE", ticket_counter,
                                                    state.ticket_info[1], "Bug")
                     ELSE UNCHANGED <<tickets, ticket_counter>>
    /\ UNCHANGED <<verify_results, store_mode, threads, llm_results>>

VerifyTicket ==
    /\ pc = "verify_ticket"
    /\ failure_rate' = RateAfterGet
    /\ \E result \in VerifyResults(store_mode, tickets, state.jira_ticket_id) :
          LET update == verify_ticket(state, result)
          IN  /\ state' = Merge(state, update)
              /\ stream' = Append(stream, Chunk("verify_ticket", update))
              /\ verify_results' = Append(verify_results, result)
              /\ store_calls' = Append(store_calls, VerifyCall(state.jira_ticket_id))
    /\ pc' = edge_after_verify
    /\ calls' = [calls EXCEPT !.verify_ticket_exists = @ + 1]
    /\ UNCHANGED <<sleeps, tickets, ticket_counter, create_results, store_mode, threads,
                   llm_results>>

FormatResponse ==
    /\ pc = "format_response"
    /\ IF format_response_raises(state)
       THEN /\ pc' = "raised"
            /\ UNCHANGED <<state, stream>>
       ELSE LET update == format_response(state)
            IN  /\ state' = Merge(state, update)
                /\ stream' = Append(stream, Chunk("format_response", update))
                /\ pc' = edge_after_format
    /\ UNCHANGED <<calls, sleeps, tickets, ticket_counter, failure_rate,
                   create_results, verify_results, store_mode, threads, store_calls, llm_results>>

HandleInvalidSource ==
    /\ pc = "handle_invalid_source"
    /\ LET update == handle_invalid_source(state)
       IN  /\ state' = Merge(state, update)
           /\ stream' = Append(stream, Chunk("handle_invalid_source", update))
    /\ pc' = edge_after_handle_invalid_source
    /\ UNCHANGED <<calls, sleeps, tickets, ticket_counter, failure_rate,
                   create_results, verify_results, store_mode, threads, store_calls, llm_results>>

Next ==
    \/ ValidateSource
    \/ ExtractTicketInfo
    \/ ExtractRaises
    \/ CheckCompleteness
    \/ CheckCompletenessRaises
    \/ InferMissingInfo
    \/ InferRaises
    \/ CreateJiraTicket
    \/ VerifyTicket
    \/ FormatResponse
    \/ HandleInvalidSource

Spec == Init /\ [][Next]_vars

\* app.stream drives the graph synchronously: as long as a node is due, the
\* next node runs
SpecLive == Spec /\ WF_vars(Next)

-----------------------------------------------------------------------------
(* The two drivers of the graph *)

\* main.py run_graph: final_state is the node_state of the last chunk
run_graph(chunks) ==
    IF chunks = <<>> THEN None ELSE chunks[Len(chunks)].update

RECURSIVE accumulated_state(_, _)
\* eval.py run_single_eval: every chunk is merged into a copy of initial_state
accumulated_state(initial, chunks) ==
    IF chunks = <<>> THEN initial
    ELSE Merge(accumulated_state(initial, SubSeq(chunks, 1, Len(chunks) - 1)),
               chunks[Len(chunks)].update)

-----------------------------------------------------------------------------
(* format_response applied repeatedly to a terminal state *)

\* how often format_response is applied to one state
MaxFormatRuns == 2

FormatInputs ==
    {[initial_state(message, ValidChannel) EXCEPT
          !.error_message = error,
          !.jira_ticket_id = key,
          !.jira_ticket_url = url,
          !.ticket_info = info,
          !.retry_count = retries] :
        message \in Messages,
        error \in {None, Some(""), Some(ShippedError), Some(VerificationFailed)},
        key \in {None, Some(TicketKey("MOBILE", InitialTicketCounter + 1))},
        url \in {None, Some(TicketUrl(TicketKey("MOBILE", InitialTicketCounter + 1)))},
        info \in {None} \cup {Some(t) : t \in TicketInfos},
        retries \in {0, MAX_JIRA_RETRIES}}

InitFormat ==
    /\ state \in FormatInputs
    /\ pc = "format_response"
    /\ stream = <<>>
    /\ calls = NoCalls
    /\ sleeps = <<>>
    /\ ticket_counter = InitialTicketCounter
    /\ tickets = PriorTickets(0)
    /\ failure_rate = 0
    /\ create_results = <<>>
    /\ verify_results = <<>>
    /\ store_mode = "shipped"
    /\ threads = <<>>
    /\ store_calls = <<>>
    /\ llm_results = <<>>

\* format_response called once more on the state it has already formatted
FormatAgain ==
    /\ pc = "END"
    /\ Len(stream) < MaxFormatRuns
    /\ LET update == format_response(state)
       IN  /\ state' = Merge(state, update)
           /\ stream' = Append(stream, Chunk("format_response", update))
    /\ UNCHANGED <<pc, calls, sleeps, tickets, ticket_counter, failure_rate,
                   create_results, verify_results, store_mode, threads, store_calls, llm_results>>

NextFormat == FormatResponse \/ FormatAgain

SpecFormat == InitFormat /\ [][NextFormat]_vars

-----------------------------------------------------------------------------
(* check_completeness as a function of the state: called on states with and  *)
(* without ticket_info                                                       *)

CheckInputs ==
    {[initial_state(message, ValidChannel) EXCEPT
          !.is_valid_source = TRUE,
          !.source = "datadog",
          !.ticket_info = info,
          !.inference_attempts = attempts] :
        message \in {m \in Messages : validate_message(m, ValidChannel).is_valid},
        info \in {None} \cup {Some(t) : t \in TicketInfos},
        attempts \in 0..MAX_INFERENCE_ATTEMPTS}

InitCheck ==
    /\ state \in CheckInputs
    /\ pc = "check_completeness"
    /\ stream = <<>>
    /\ calls = NoCalls
    /\ sleeps = <<>>
    /\ ticket_counter = InitialTicketCounter
    /\ tickets = PriorTickets(0)
    /\ failure_rate = 0
    /\ create_results = <<>>
    /\ verify_results = <<>>
    /\ store_mode = "shipped"
    /\ threads = <<>>
    /\ store_calls = <<>>
    /\ llm_results = <<>>

NextCheck == CheckCompleteness \/ CheckCompletenessRaises

SpecCheck == InitCheck /\ [][NextCheck]_vars

-----------------------------------------------------------------------------
(* The shipped store used directly, one operation at a time: the rate is    *)
(* configured through get_jira_client, tickets are created and keys looked  *)
(* up.                                                                       *)

\* the fields a run passes to create_ticket
ThreadInfo == [title |-> "TypeError in job view", description |-> "## Error",
               labels |-> <<"bug", "mobile">>]

\* the create calls that returned success
SuccessfulCreates == {i \in DOMAIN create_results : create_results[i].success}

\* how many store operations one behaviour makes
MaxStoreOps == 4

\* a key the store never issued
UnknownKey == TicketKey("MOBILE", 0)

InitStore ==
    /\ state = initial_state(<<>>, "")
    /\ pc = "END"
    /\ stream = <<>>
    /\ calls = NoCalls
    /\ sleeps = <<>>
    /\ \E n \in 0..MaxPriorTickets :
          /\ ticket_counter = InitialTicketCounter + n
          /\ tickets = PriorTickets(n)
    /\ failure_rate \in {0, 1}
    /\ create_results = <<>>
    /\ verify_results = <<>>
    /\ store_mode = "shipped"
    /\ threads = <<>>
    /\ store_calls = <<>>
    /\ llm_results = <<>>

\* get_jira_client(failure_rate=rate)
StoreConfigure ==
    /\ \E rate \in {0, 1} :
          /\ rate # failure_rate
          /\ failure_rate' = get_jira_client(rate)
    /\ UNCHANGED <<state, pc, stream, calls, sleeps, tickets, ticket_counter,
                   create_results, verify_results, store_mode, threads,
                   store_calls, llm_results>>

\* jira_client.create_ticket(project, title, description, labels)
StoreCreate ==
    /\ Len(store_calls) < MaxStoreOps
    /\ \E result \in CreateFailures(store_mode, failure_rate)
                        \cup {CreateSuccess("MOBILE", ticket_counter)} :
          /\ create_results' = Append(create_results, result)
          /\ store_calls' = Append(store_calls, CreateCall("MOBILE", ThreadInfo, "Bug"))
          /\ IF result.success
             THEN /\ ticket_counter' = ticket_counter + 1
                  /\ tickets' = StoreTicket(tickets, "MOBILE", ticket_counter,
                                            ThreadInfo, "Bug")
             ELSE UNCHANGED <<tickets, ticket_counter>>
    /\ calls' = [calls EXCEPT !.create_ticket = @ + 1]
    /\ UNCHANGED <<state, pc, stream, sleeps, failure_rate, verify_results,
                   store_mode, threads, llm_results>>

\* jira_client.verify_ticket_exists(ticket_key)
StoreVerify ==
    /\ Len(store_calls) < MaxStoreOps
    /\ \E key \in DOMAIN tickets \cup {UnknownKey}
                  \cup {create_results[i].ticket_key : i \in SuccessfulCreates} :
          \E result \in VerifyResults(store_mode, tickets, Some(key)) :
              /\ verify_results' = Append(verify_results, result)
              /\ store_calls' = Append(store_calls, VerifyCall(Some(key)))
    /\ calls' = [calls EXCEPT !.verify_ticket_exists = @ + 1]
    /\ UNCHANGED <<state, pc, stream, sleeps, tickets, ticket_counter, failure_rate,
                   create_results, store_mode, threads, llm_results>>

NextStore == StoreConfigure \/ StoreCreate \/ StoreVerify

SpecStore == InitStore /\ [][NextStore]_vars

-----------------------------------------------------------------------------
(* create_ticket called by several runs at once on the shared store.  The   *)
(* method takes no lock; `self._ticket_counter += 1` is a read followed by  *)
(* a write, and the counter is read again to build the key.                 *)

\* the runs that are inside create_ticket at the same time
NumThreads == 2

Threads == 1..NumThreads

InitConcurrent ==
    /\ state = Merge(initial_state(<<"Triggered:", "@issue.id:">>, ValidChannel),
                     [is_valid_source |-> TRUE, source |-> "datadog",
                      ticket_info |-> Some(ThreadInfo), is_complete |-> TRUE])
    /\ pc = "create_jira_ticket"
    /\ stream = <<>>
    /\ calls = NoCalls
    /\ sleeps = <<>>
    /\ \E n \in 0..MaxPriorTickets :
          /\ ticket_counter = InitialTicketCounter + n
          /\ tickets = PriorTickets(n)
    /\ failure_rate \in {0, 1}
    /\ create_results = <<>>
    /\ verify_results = <<>>
    /\ store_mode = "shipped"
    /\ threads = [t \in Threads |-> [pc |-> "start", loaded |-> 0, ticket_id |-> 0]]
    /\ store_calls = <<>>
    /\ llm_results = <<>>

\* if random.random() < self.failure_rate: return the failure
CreateDraw(t) ==
    /\ threads[t].pc = "start"
    /\ \/ /\ failure_rate > 0
          /\ threads' = [threads EXCEPT ![t].pc = "failed"]
          /\ create_results' = Append(create_results,
                                      [success |-> FALSE, error |-> ShippedError])
       \/ /\ threads' = [threads EXCEPT ![t].pc = "load"]
          /\ UNCHANGED create_results
    /\ UNCHANGED <<state, pc, stream, calls, sleeps, tickets, ticket_counter,
                   failure_rate, verify_results, store_mode, store_calls, llm_results>>

\* self._ticket_counter += 1, the read
CreateLoadCounter(t) ==
    /\ threads[t].pc = "load"
    /\ threads' = [threads EXCEPT ![t].pc = "store", ![t].loaded = ticket_counter]
    /\ UNCHANGED <<state, pc, stream, calls, sleeps, tickets, ticket_counter,
                   failure_rate, create_results, verify_results, store_mode, store_calls, llm_results>>

\* self._ticket_counter += 1, the write
CreateStoreCounter(t) ==
    /\ threads[t].pc = "store"
    /\ ticket_counter' = threads[t].loaded + 1
    /\ threads' = [threads EXCEPT ![t].pc = "read"]
    /\ UNCHANGED <<state, pc, stream, calls, sleeps, tickets, failure_rate,
                   create_results, verify_results, store_mode, store_calls, llm_results>>

\* ticket_id = str(self._ticket_counter)
CreateReadId(t) ==
    /\ threads[t].pc = "read"
    /\ threads' = [threads EXCEPT ![t].pc = "register", ![t].ticket_id = ticket_counter]
    /\ UNCHANGED <<state, pc, stream, calls, sleeps, tickets, ticket_counter,
                   failure_rate, create_results, verify_results, store_mode, store_calls, llm_results>>

\* self.tickets[ticket_key] = ticket, and the success result is returned
CreateRegister(t) ==
    /\ threads[t].pc = "register"
    /\ tickets' = StoreTicket(tickets, "MOBILE", threads[t].ticket_id - 1,
                              ThreadInfo, "Bug")
    /\ create_results' = Append(create_results,
                                CreateSuccess("MOBILE", threads[t].ticket_id - 1))
    /\ threads' = [threads EXCEPT ![t].pc = "done"]
    /\ UNCHANGED <<state, pc, stream, calls, sleeps, ticket_counter, failure_rate,
                   verify_results, store_mode, store_calls, llm_results>>

NextConcurrent ==
    \E t \in Threads :
        \/ CreateDraw(t)
        \/ CreateLoadCounter(t)
        \/ CreateStoreCounter(t)
        \/ CreateReadId(t)
        \/ CreateRegister(t)

SpecConcurrent == InitConcurrent /\ [][NextConcurrent]_vars

TypeOK ==
    /\ DOMAIN state = Keys
    /\ pc \in {"validate_source", "extract_ticket_info", "check_completeness",
               "infer_missing_info", "create_jira_ticket", "verify_ticket",
               "format_response", "handle_invalid_source", "END", "raised"}

-----------------------------------------------------------------------------
(* Observers over the run *)

Last(seq) == seq[Len(seq)]

LastNode == IF stream = <<>> THEN "" ELSE Last(stream).node

\* the verdict classify gives on the run's inputs
Classified == validate_message(state.raw_message, state.channel)

\* the positions of the stream whose update carries the key
Writers(key) == {i \in DOMAIN stream : key \in DOMAIN stream[i].update}

AllCreatesFailed == \A i \in DOMAIN create_results : ~create_results[i].success

\* the first k create calls failed and call k+1 succeeded
FailedThenSucceeded(k) ==
    /\ Len(create_results) = k + 1
    /\ \A i \in 1..k : ~create_results[i].success
    /\ create_results[k + 1].success

StoreNeverCalled == calls.create_ticket = 0 /\ calls.verify_ticket_exists = 0

AnalyzerNeverCalled == calls.extract = 0 /\ calls.assess = 0 /\ calls.infer = 0

-----------------------------------------------------------------------------
(* Claims *)

\* C1: in a run whose message classify rejects (is_valid = false), no
\* Content Analyzer operation and no Ticket Store operation is ever called,
\* ticket_id stays null, the run never raises, and at end of run
\* final_response is the rejection notice.
C1_RejectedRunTouchesNothing ==
    ~Classified.is_valid =>
        /\ AnalyzerNeverCalled
        /\ StoreNeverCalled
        /\ state.jira_ticket_id = None
        /\ pc # "raised"
        /\ pc = "END" =>
              state.final_response = RejectedResponse(Classified.source, state.channel)

C1_Witness ==
    /\ pc = "END"
    /\ ~Classified.is_valid
    /\ LastNode = "handle_invalid_source"
    /\ state.final_response.kind = "Message rejected: "

\* C2: whenever CreateTicket is about to run, inference_attempts is at most
\* MAX_INFERENCE_ATTEMPTS, and whenever Infer is about to run it is strictly
\* below MAX_INFERENCE_ATTEMPTS.
C2_InferenceBounded ==
    /\ pc = "create_jira_ticket" => state.inference_attempts <= MAX_INFERENCE_ATTEMPTS
    /\ pc = "infer_missing_info" => state.inference_attempts < MAX_INFERENCE_ATTEMPTS

C2_Witness ==
    /\ pc = "create_jira_ticket"
    /\ state.inference_attempts = MAX_INFERENCE_ATTEMPTS
    /\ ~state.is_complete
    /\ calls.assess = MAX_INFERENCE_ATTEMPTS + 1

\* C3: retry_count never exceeds MAX_JIRA_RETRIES; CreateTicket is entered
\* again after a create only below the maximum; and when the engine routes
\* from CreateTicket to Format, retry_count is exactly MAX_JIRA_RETRIES.
C3_RetryBounded ==
    /\ state.retry_count <= MAX_JIRA_RETRIES
    /\ pc = "create_jira_ticket" => state.retry_count < MAX_JIRA_RETRIES
    /\ (pc = "format_response" /\ LastNode = "create_jira_ticket") =>
          state.retry_count = MAX_JIRA_RETRIES

C3_Witness ==
    /\ pc = "format_response"
    /\ LastNode = "create_jira_ticket"
    /\ state.retry_count = MAX_JIRA_RETRIES
    /\ calls.create_ticket = MAX_JIRA_RETRIES

\* C4: in a run where every create call so far has failed, ticket_id is
\* null, Verify has not been invoked, error holds the text of the last
\* failure and retry_count the number of failures; the run is either still
\* in the create loop or, from MAX_JIRA_RETRIES failures on, at Format or
\* at end of run (it never raises), and it ends through Format with
\* final_response carrying the last failure's error text.
C4_AllCreatesFail ==
    (create_results # <<>> /\ AllCreatesFailed) =>
        /\ state.jira_ticket_id = None
        /\ state.jira_ticket_url = None
        /\ calls.verify_ticket_exists = 0
        /\ state.error_message = Some(Last(create_results).error)
        /\ state.retry_count = Len(create_results)
        /\ pc \in {"create_jira_ticket", "format_response", "END"}
        /\ pc = "create_jira_ticket" <=> state.retry_count < MAX_JIRA_RETRIES
        /\ pc = "END" =>
              /\ LastNode = "format_response"
              /\ state.retry_count = MAX_JIRA_RETRIES
              /\ state.final_response = FailedResponse(Last(create_results).error)

C4_Witness ==
    /\ pc = "END"
    /\ state.is_valid_source
    /\ AllCreatesFailed
    /\ Len(create_results) = MAX_JIRA_RETRIES
    /\ create_results[1].error # create_results[MAX_JIRA_RETRIES].error
    /\ state.final_response = FailedResponse(create_results[MAX_JIRA_RETRIES].error)

\* C5: for every k below MAX_JIRA_RETRIES, once the store has failed the
\* first k create calls and succeeded on the next, retry_count is k,
\* ticket_id and ticket_url are the store's key and url, the successful
\* create leaves error null, the engine goes on to Verify and never back to
\* CreateTicket, and Verify is invoked exactly once before Format.
C5_FailThenSucceed ==
    \A k \in 0..(MAX_JIRA_RETRIES - 1) :
        FailedThenSucceeded(k) =>
            /\ state.retry_count = k
            /\ state.jira_ticket_id = Some(create_results[k + 1].ticket_key)
            /\ state.jira_ticket_url = Some(create_results[k + 1].ticket_url)
            /\ pc \in {"verify_ticket", "format_response", "END"}
            /\ LastNode = "create_jira_ticket" =>
                  /\ state.error_message = None
                  /\ pc = "verify_ticket"
                  /\ calls.verify_ticket_exists = 0
            /\ pc \in {"format_response", "END"} =>
                  /\ calls.verify_ticket_exists = 1
                  /\ state.error_message =
                        IF verify_results[1].exists THEN None
                        ELSE Some(VerificationFailed)
            /\ pc = "END" => LastNode = "format_response"

C5_Witness ==
    /\ pc = "END"
    /\ FailedThenSucceeded(2)
    /\ state.retry_count = 2
    /\ state.error_message = None
    /\ calls.verify_ticket_exists = 1

Decisions(s) ==
    <<validate_source(s),
      [r \in TicketInfos |-> extract_ticket_info(s, r)],
      [r \in BOOLEAN |-> check_completeness(s, r)],
      [r \in TicketInfos |-> infer_missing_info(s, r)],
      [r \in ErrorTexts |-> create_jira_ticket(s, [success |-> FALSE, error |-> r])],
      create_jira_ticket(s, CreateSuccess("MOBILE", ticket_counter)),
      [r \in BOOLEAN |-> verify_ticket(s, [exists |-> r])],
      IF format_response_raises(s) THEN <<>> ELSE format_response(s),
      handle_invalid_source(s),
      route_after_validation(s),
      route_after_completeness(s),
      route_after_jira_create(s)>>

\* C7: final_response is written at most once in a run, and a run that has
\* reached end of run has written it exactly once, as the last step, by
\* handle_invalid_source (rejected source) or by format_response
\* (create/verify path); until it is written it keeps its initial empty
\* value, and no node's update and no routing decision depends on it.
C7_FinalResponseOnce ==
    /\ Cardinality(Writers("final_response")) <= 1
    /\ Writers("final_response") = {} <=> state.final_response = EmptyResponse
    /\ pc = "END" =>
          /\ Writers("final_response") = {Len(stream)}
          /\ LastNode \in {"handle_invalid_source", "format_response"}
          /\ LastNode = "handle_invalid_source" <=> ~state.is_valid_source
          /\ \A i \in DOMAIN stream :
                stream[i].node \in {"handle_invalid_source", "format_response"}
                    => i = Len(stream)
    /\ Decisions([state EXCEPT !.final_response = UnknownResponse]) = Decisions(state)
    /\ Decisions([state EXCEPT !.final_response = EmptyResponse]) = Decisions(state)

C7_Witness ==
    /\ pc = "END"
    /\ LastNode = "handle_invalid_source"
    /\ Writers("final_response") = {2}
    /\ Writers("error_message") = {2}

\* C8: every step of the graph that runs a node changes only the keys of
\* the update that node returned: every other key of the state keeps the
\* value it had before the step; a step that yields no update changes no
\* key at all.
C8_MergeLaw ==
    [][ /\ stream' # stream =>
              \A k \in Keys :
                  k \notin DOMAIN Last(stream').update => state'[k] = state[k]
        /\ stream' = stream => state' = state ]_vars

C8_Witness ==
    /\ pc = "END"
    /\ LastNode = "format_response"
    /\ DOMAIN Last(stream).update = {"final_response"}
    /\ state.retry_count = 3
    /\ state.inference_attempts = 2
    /\ state.jira_ticket_id # None
    /\ state.ticket_info # None
    /\ state.is_valid_source

\* the state s with every key but the four inputs of Format at its default
FormatView(s) ==
    [initial_state(<<>>, "") EXCEPT
        !.error_message = s.error_message,
        !.jira_ticket_id = s.jira_ticket_id,
        !.jira_ticket_url = s.jira_ticket_url,
        !.ticket_info = s.ticket_info]

\* C9: Format applied again to the state it produced writes the same
\* final_response as the first application; the response is determined by
\* error, ticket_id, ticket_url and ticket_fields alone, Format changes no
\* other key, and it calls no collaborator.
C9_FormatIdempotent ==
    /\ \A i \in DOMAIN stream : stream[i].update = stream[1].update
    /\ stream # <<>> =>
          /\ state.final_response = stream[1].update.final_response
          /\ state.final_response = format_response(FormatView(state)).final_response
          /\ [state EXCEPT !.final_response = EmptyResponse] \in FormatInputs
    /\ calls = NoCalls
    /\ create_results = <<>> /\ verify_results = <<>> /\ sleeps = <<>>
    /\ tickets = PriorTickets(0) /\ ticket_counter = InitialTicketCounter

C9_Witness ==
    /\ Len(stream) = 2
    /\ stream[1].update = stream[2].update
    /\ state.final_response.kind = "JIRA ticket created successfully!"
    /\ state.retry_count = MAX_JIRA_RETRIES

\* C10: at end of run, what run_graph returns is the initial state with
\* every node's update merged in order, so on a successful run the returned
\* record carries a non-null ticket id.
C10_RunReturnsMergedState ==
    pc = "END" =>
        /\ run_graph(stream) =
             accumulated_state(initial_state(state.raw_message, state.channel), stream)
        /\ state.jira_ticket_id # None =>
              /\ "jira_ticket_id" \in DOMAIN run_graph(stream)
              /\ run_graph(stream).jira_ticket_id # None

\* the longest stream a run can yield: Validate, Extract, the completeness
\* checks with the inferences between them, the creates, Verify, Format
MaxRunLength ==
    1 + 1 + (MAX_INFERENCE_ATTEMPTS + 1) + MAX_INFERENCE_ATTEMPTS
      + MAX_JIRA_RETRIES + 1 + 1

\* C11: every run either has a collaborator call raise or reaches end of
\* run with a non-empty final_response, whatever verdicts the analyzer and
\* whatever results the store return; no run yields more than MaxRunLength
\* chunks, with at most MAX_INFERENCE_ATTEMPTS inferences and at most
\* MAX_JIRA_RETRIES create calls.
C11_RunTerminates ==
    /\ [](/\ Len(stream) <= MaxRunLength
          /\ calls.infer <= MAX_INFERENCE_ATTEMPTS
          /\ calls.create_ticket <= MAX_JIRA_RETRIES)
    /\ <>(\/ calls.raised > 0
          \/ pc = "END" /\ state.final_response # EmptyResponse)

C11_Witness ==
    /\ pc = "END"
    /\ calls.raised = 0
    /\ Len(stream) = MaxRunLength
    /\ calls.infer = MAX_INFERENCE_ATTEMPTS
    /\ calls.create_ticket = MAX_JIRA_RETRIES
    /\ state.final_response # EmptyResponse

\* C12: once a Content Analyzer call has raised (in Extract,
\* CheckCompleteness or Infer) the run has stopped at that stage: exactly
\* one call has raised, the store's create and verify operations have not
\* been called, the registry is as the run found it, no response has been
\* written, and from then on no node runs and no collaborator is called.
C12_CollaboratorFaultAborts ==
    /\ [](calls.raised > 0 =>
            /\ calls.raised = 1
            /\ pc = "raised"
            /\ StoreNeverCalled
            /\ create_results = <<>>
            /\ DOMAIN tickets = DOMAIN PriorTickets(ticket_counter - InitialTicketCounter)
            /\ state.jira_ticket_id = None
            /\ state.final_response = EmptyResponse
            /\ LastNode \in {"validate_source", "extract_ticket_info",
                             "check_completeness", "infer_missing_info"})
    /\ [][calls.raised > 0 => UNCHANGED vars]_vars
    /\ [][calls'.raised > calls.raised => (pc' = "raised" /\ state' = state /\ stream' = stream)]_vars

C12_Witness ==
    /\ pc = "raised"
    /\ calls.raised = 1
    /\ LastNode = "infer_missing_info"
    /\ calls.assess = 2
    /\ calls.infer = 1
    /\ StoreNeverCalled

\* the positions of the stream at which the node ran
Ran(node) == {i \in DOMAIN stream : stream[i].node = node}

\* C13: Verify runs at most once in a run, after a successful create, and
\* nothing but Format runs after it: the store's create is not called
\* again. When the store reports exists = false, error becomes the
\* verification-failed message while ticket_id stays set, and the run ends
\* with final_response reporting that error.
C13_VerificationMismatch ==
    /\ Cardinality(Ran("verify_ticket")) <= 1
    /\ Len(verify_results) = Cardinality(Ran("verify_ticket"))
    /\ calls.verify_ticket_exists = Len(verify_results)
    /\ \A i \in Ran("verify_ticket") :
          /\ i > 1 /\ stream[i - 1].node = "create_jira_ticket"
          /\ Last(create_results).success
          /\ \A j \in DOMAIN stream : j > i => stream[j].node = "format_response"
          /\ i = Len(stream) => pc = "format_response"
    /\ (verify_results # <<>> /\ ~verify_results[1].exists) =>
          /\ state.error_message = Some(VerificationFailed)
          /\ state.jira_ticket_id = Some(Last(create_results).ticket_key)
          /\ pc \in {"format_response", "END"}
          /\ pc = "END" => state.final_response = FailedResponse(VerificationFailed)

C13_Witness ==
    /\ pc = "END"
    /\ verify_results = <<[exists |-> FALSE]>>
    /\ Len(create_results) = 2
    /\ state.jira_ticket_id # None
    /\ state.final_response = FailedResponse(VerificationFailed)

\* C14: a run whose message passed validation and whose analyzer calls all
\* return enters CreateTicket: it eventually calls the store's create (or a
\* call raises), and it is never past the create loop without having called
\* it, complete fields or not, active alert or recovery notice; when the
\* create call succeeds the run ends with ticket_id set.
C14_ValidRunCreates ==
    /\ []((state.is_valid_source /\ pc \in {"verify_ticket", "format_response", "END"})
            => calls.create_ticket >= 1)
    /\ []((pc = "END" /\ create_results # <<>> /\ Last(create_results).success)
            => state.jira_ticket_id = Some(Last(create_results).ticket_key))
    /\ (state.is_valid_source ~> (calls.raised > 0 \/ calls.create_ticket >= 1))
    /\ (state.is_valid_source ~>
            (\/ calls.raised > 0
             \/ pc = "END" /\ state.jira_ticket_id # None
             \/ pc = "END" /\ AllCreatesFailed /\ create_results # <<>>))

C14_Witness ==
    /\ pc = "END"
    /\ state.is_valid_source
    /\ state.raw_message[1] = "Recovered:"
    /\ ~state.is_complete
    /\ calls.create_ticket = 1
    /\ state.jira_ticket_id # None

\* the message holds none of the Datadog indicators, in any letter case
NoDatadogMarker(message) ==
    \A i \in DOMAIN message :
        /\ message[i] \notin {"Triggered:", "@issue.id:", "@slack-ServiceCore"}
        /\ LowerToken(message[i]) # "rum errors"

\* C15: the verdict of classify depends on message and channel only and is
\* what Validate stores: is_valid is source_valid and channel_valid,
\* channel_valid is channel = 'servicecore-mobile-errors', source is
\* 'datadog' when source_valid and 'unknown' otherwise; a message without a
\* Datadog marker, and any message in another channel, is not valid.
C15_Classify ==
    /\ Classified.is_valid = (Classified.source_valid /\ Classified.channel_valid)
    /\ Classified.channel_valid = (state.channel = ValidChannel)
    /\ Classified.source = IF Classified.source_valid THEN "datadog" ELSE "unknown"
    /\ NoDatadogMarker(state.raw_message) => ~Classified.source_valid
    /\ stream # <<>> =>
          /\ stream[1].update = [is_valid_source |-> Classified.is_valid,
                                 source |-> Classified.source]
          /\ state.is_valid_source = Classified.is_valid
          /\ state.source = Classified.source
          /\ (NoDatadogMarker(state.raw_message) \/ state.channel # ValidChannel)
                => ~state.is_valid_source
    /\ \A i \in DOMAIN stream :
          "is_valid_source" \in DOMAIN stream[i].update => i = 1

C15_Witness ==
    /\ pc = "handle_invalid_source"
    /\ state.channel = "general"
    /\ state.source = "datadog"
    /\ ~state.is_valid_source
    /\ Classified.source_valid
    /\ ~Classified.channel_valid

\* the registry entries that this state's creations added
CreatedEntries == {k \in DOMAIN tickets : tickets[k].title # "earlier"}


\* C16: with several runs inside create_ticket at once, no two successful
\* creations return the same ticket key, and once all have returned the
\* registry holds one entry per successful creation.
C16_ConcurrentCreatesDistinct ==
    /\ \A i, j \in SuccessfulCreates :
          i # j => create_results[i].ticket_key # create_results[j].ticket_key
    /\ (\A t \in DOMAIN threads : threads[t].pc \in {"done", "failed"}) =>
          Cardinality(CreatedEntries) = Cardinality(SuccessfulCreates)

\* C17: Validate is the first node of every run and runs once; the node
\* after it is Extract when is_valid_source is true and RejectSource when
\* it is false; Extract and every node after it run only with
\* is_valid_source true, RejectSource only with is_valid_source false.
C17_ValidationGate ==
    /\ stream = <<>> => pc = "validate_source"
    /\ stream # <<>> => stream[1].node = "validate_source"
    /\ Ran("validate_source") \subseteq {1}
    /\ LastNode = "validate_source" =>
          /\ state.is_valid_source => pc \in {"extract_ticket_info", "raised"}
          /\ ~state.is_valid_source => pc = "handle_invalid_source"
    /\ pc \in {"extract_ticket_info", "check_completeness", "infer_missing_info",
               "create_jira_ticket", "verify_ticket", "format_response"}
          => state.is_valid_source
    /\ \A i \in DOMAIN stream :
          /\ stream[i].node \notin {"validate_source", "handle_invalid_source"}
                => state.is_valid_source
          /\ stream[i].node = "handle_invalid_source" => ~state.is_valid_source
    /\ pc = "handle_invalid_source" => ~state.is_valid_source

C17_Witness ==
    /\ pc = "extract_ticket_info"
    /\ LastNode = "validate_source"
    /\ state.is_valid_source
    /\ Len(stream) = 1

\* the node whose chunk a step appends to the stream ("" when none)
Yielded == IF stream' = stream THEN "" ELSE Last(stream').node

C18_Step ==
    /\ Yielded = "check_completeness" =>
          pc' = IF state'.is_complete THEN "create_jira_ticket"
                ELSE IF state'.inference_attempts < MAX_INFERENCE_ATTEMPTS
                     THEN "infer_missing_info"
                     ELSE "create_jira_ticket"
    /\ Yielded \in {"extract_ticket_info", "infer_missing_info"} =>
          pc' = "check_completeness"

\* C18: after CheckCompleteness the next node is CreateTicket when
\* is_complete is true, Infer when it is false and inference_attempts is
\* below MAX_INFERENCE_ATTEMPTS, and CreateTicket with is_complete still
\* false otherwise; Extract and Infer are always followed by
\* CheckCompleteness.
C18_CompletenessRouting == [][C18_Step]_vars

C18_Witness ==
    /\ LastNode = "check_completeness"
    /\ pc = "create_jira_ticket"
    /\ ~state.is_complete
    /\ state.inference_attempts = MAX_INFERENCE_ATTEMPTS
    /\ Ran("infer_missing_info") # {}

C19_Step ==
    Yielded = "create_jira_ticket" =>
       /\ \/ state'.error_message = None /\ state'.jira_ticket_id # None
          \/ state'.error_message # None
       /\ (state'.error_message = None /\ state'.jira_ticket_id # None)
             => pc' = "verify_ticket"
       /\ (state'.error_message # None /\ state'.retry_count < MAX_JIRA_RETRIES)
             => pc' = "create_jira_ticket"
       /\ (state'.error_message # None /\ state'.retry_count >= MAX_JIRA_RETRIES)
             => pc' = "format_response"

\* C19: after CreateTicket the next node is Verify when error_message is
\* None and a ticket id is set, CreateTicket again when error_message is
\* set and retry_count is below MAX_JIRA_RETRIES, and Format when
\* error_message is set and retry_count has reached MAX_JIRA_RETRIES; one of
\* the three cases always applies, and CreateTicket is never entered again
\* with error_message None.
C19_CreateRouting ==
    /\ [][C19_Step]_vars
    /\ [](pc = "create_jira_ticket" /\ Ran("create_jira_ticket") # {}
             => state.error_message # None)

C19_Witness ==
    /\ LastNode = "create_jira_ticket"
    /\ pc = "format_response"
    /\ state.error_message # None
    /\ state.retry_count = MAX_JIRA_RETRIES
    /\ Cardinality(Ran("create_jira_ticket")) = MAX_JIRA_RETRIES

\* C20 as stated: after RejectSource the next node is Format, and the run
\* ends only after Format has run.
C20_RejectThenFormat ==
    /\ LastNode = "handle_invalid_source" => pc = "format_response"
    /\ pc = "END" => LastNode = "format_response"

\* C20: RejectSource ends the run itself: after it the graph is at END and
\* Format never runs in that run; a run ends after Format on the
\* create/verify path and after RejectSource on the rejected path.
C20_RejectEndsRun ==
    /\ LastNode = "handle_invalid_source" => pc = "END"
    /\ pc = "END" => LastNode \in {"format_response", "handle_invalid_source"}
    /\ Ran("handle_invalid_source") # {} => Ran("format_response") = {}
    /\ Ran("format_response") # {} => Ran("handle_invalid_source") = {}

C20_Witness ==
    /\ pc = "END"
    /\ LastNode = "handle_invalid_source"
    /\ Ran("format_response") = {}
    /\ Len(stream) = 2

\* the keys of the state a step leaves as they were
Kept(keys) == \A k \in keys : state'[k] = state[k]

C21_Step ==
    Yielded = "create_jira_ticket" =>
       LET result == Last(create_results')
           call == Last(store_calls')
       IN  /\ calls' = [calls EXCEPT !.create_ticket = @ + 1]
           /\ Len(create_results') = Len(create_results) + 1
           /\ Len(store_calls') = Len(store_calls) + 1
           /\ call.op = "create_ticket"
           /\ call.project = "MOBILE"
           /\ call.issue_type = "Bug"
           /\ result.success =>
                 /\ state'.jira_ticket_id = Some(result.ticket_key)
                 /\ state'.jira_ticket_url = Some(result.ticket_url)
                 /\ state'.error_message = None
                 /\ state'.retry_count = state.retry_count
           /\ ~result.success =>
                 /\ state'.error_message = Some(result.error)
                 /\ state'.retry_count = state.retry_count + 1
                 /\ Kept({"jira_ticket_id", "jira_ticket_url"})
                 /\ state'.jira_ticket_id = None
                 /\ state'.jira_ticket_url = None

\* C21: a CreateTicket whose store call succeeds sets jira_ticket_id and
\* jira_ticket_url to the store's key and url, sets error_message to None
\* and keeps retry_count; one whose store call fails sets error_message to
\* the store's error text, adds exactly 1 to retry_count and leaves
\* jira_ticket_id and jira_ticket_url as they were (None); either way the
\* store's create is called exactly once, with project "MOBILE" and issue
\* type "Bug".
C21_CreateEffect == [][C21_Step]_vars

C21_Witness ==
    /\ LastNode = "create_jira_ticket"
    /\ Len(store_calls) = 2
    /\ ~create_results[1].success
    /\ create_results[2].success
    /\ state.retry_count = 1
    /\ state.error_message = None
    /\ state.jira_ticket_id = Some(create_results[2].ticket_key)

C22_Step ==
    Yielded = "verify_ticket" =>
       LET result == Last(verify_results')
       IN  /\ calls' = [calls EXCEPT !.verify_ticket_exists = @ + 1]
           /\ Len(verify_results') = Len(verify_results) + 1
           /\ store_calls' = Append(store_calls, VerifyCall(state.jira_ticket_id))
           /\ result.exists => state'.error_message = None
           /\ ~result.exists => state'.error_message = Some(VerificationFailed)
           /\ Kept({"jira_ticket_id", "jira_ticket_url", "retry_count"})
           /\ pc' = "format_response"

\* C22: Verify calls the store's verify operation exactly once, with the
\* state's jira_ticket_id; exists true makes error_message None, exists
\* false makes it the fixed verification-failed text; jira_ticket_id,
\* jira_ticket_url and retry_count stay as they were and the next node is
\* Format.
C22_VerifyEffect == [][C22_Step]_vars

C22_Witness ==
    /\ LastNode = "verify_ticket"
    /\ pc = "format_response"
    /\ ~Last(verify_results).exists
    /\ state.error_message = Some(VerificationFailed)
    /\ state.jira_ticket_id # None
    /\ Last(store_calls) = VerifyCall(state.jira_ticket_id)

\* error_message holds an error text (`if error_message:`)
ErrorSet(s) == s.error_message # None /\ s.error_message # Some("")

TicketSet(s) == s.jira_ticket_id # None /\ s.jira_ticket_url # None

C23_Step ==
    Yielded = "format_response" =>
       /\ ErrorSet(state) =>
             state'.final_response = FailedResponse(state.error_message[1])
       /\ (~ErrorSet(state) /\ TicketSet(state)) =>
             /\ state.ticket_info # None
             /\ state'.final_response =
                   [kind |-> "JIRA ticket created successfully!",
                    ticket |-> state.jira_ticket_id[1],
                    url |-> state.jira_ticket_url[1],
                    title |-> state.ticket_info[1].title,
                    labels |-> Join(state.ticket_info[1].labels, ", ")]
       /\ (~ErrorSet(state) /\ ~TicketSet(state)) =>
             state'.final_response = UnknownResponse
       /\ Kept(Keys \ {"final_response"})

\* C23: Format writes the error response when error_message holds an error
\* text, also when jira_ticket_id and jira_ticket_url are set; otherwise
\* the success summary of ticket id, url, title and labels when
\* jira_ticket_id and jira_ticket_url are both set; otherwise the generic
\* failure text.  It changes no key other than final_response.
C23_FormatPriority == [][C23_Step]_vars

C23_Witness ==
    /\ Len(stream) = 1
    /\ ErrorSet(state)
    /\ TicketSet(state)
    /\ state.final_response = FailedResponse(state.error_message[1])
    /\ state.retry_count = 0

\* the keys the reject path never writes
RejectUntouched ==
    {"ticket_info", "jira_ticket_id", "jira_ticket_url", "is_complete",
     "inference_attempts", "retry_count"}

AtDefault(keys) ==
    \A k \in keys : state[k] = initial_state(state.raw_message, state.channel)[k]

C24_Step ==
    Yielded = "handle_invalid_source" =>
       /\ state'.final_response = RejectedResponse(state.source, state.channel)
       /\ state'.error_message = Some("Invalid source")
       /\ Kept(Keys \ {"final_response", "error_message"})
       /\ calls' = calls
       /\ store_calls' = store_calls

\* C24: RejectSource sets final_response to the rejection notice naming the
\* source tag and the channel and error_message to "Invalid source", calls
\* no collaborator, and leaves ticket_info, jira_ticket_id,
\* jira_ticket_url, is_complete, inference_attempts and retry_count at the
\* defaults of the initial state, which is how they stand when the
\* rejected run has ended.
C24_RejectEffect ==
    /\ [][C24_Step]_vars
    /\ [](LastNode = "handle_invalid_source" =>
             /\ pc = "END"
             /\ AtDefault(RejectUntouched)
             /\ state.final_response.source = state.source
             /\ state.final_response.channel = state.channel
             /\ state.error_message = Some("Invalid source")
             /\ calls = [NoCalls EXCEPT !.validate_message = 1]
             /\ store_calls = <<>>)

C24_Witness ==
    /\ LastNode = "handle_invalid_source"
    /\ state.error_message = Some("Invalid source")
    /\ state.final_response = RejectedResponse("unknown", state.channel)
    /\ AtDefault(RejectUntouched)
    /\ state.channel = ValidChannel

C25_Step ==
    Yielded = "infer_missing_info" =>
       LET r == Last(llm_results')
       IN  /\ Len(llm_results') = Len(llm_results) + 1
           /\ r.op = "infer"
           /\ calls' = [calls EXCEPT !.infer = @ + 1]
           /\ state'.inference_attempts = state.inference_attempts + 1
           /\ state'.ticket_info = Some([title |-> r.result.title,
                                         description |-> r.result.description,
                                         labels |-> r.result.labels])
           /\ Kept(Keys \ {"ticket_info", "inference_attempts"})

\* C25: every Infer that returns adds exactly 1 to inference_attempts,
\* whether or not the fields improved, and replaces ticket_info as a whole:
\* title, description and labels are those of the analyzer's result, none is
\* kept from the previous value; no other key changes.
C25_InferEffect == [][C25_Step]_vars

C25_Witness ==
    /\ LastNode = "infer_missing_info"
    /\ state.inference_attempts = MAX_INFERENCE_ATTEMPTS
    /\ Last(llm_results).op = "infer"
    /\ llm_results[1].result.description # ""
    /\ Last(llm_results).result.description = ""
    /\ state.ticket_info # None
    /\ state.ticket_info[1].description = ""
    /\ state.ticket_info[1].labels = <<>>

C26_Step ==
    Yielded = "check_completeness" =>
       /\ state.ticket_info = None =>
             /\ ~state'.is_complete
             /\ calls' = calls
             /\ llm_results' = llm_results
       /\ state.ticket_info # None =>
             /\ calls' = [calls EXCEPT !.assess = @ + 1]
             /\ Len(llm_results') = Len(llm_results) + 1
             /\ Last(llm_results').op = "assess"
             /\ state'.is_complete = Last(llm_results').result
       /\ Kept(Keys \ {"is_complete"})

\* C26: CheckCompleteness on a state whose ticket_info is None sets
\* is_complete to false without calling the analyzer's assess; otherwise it
\* calls assess exactly once and sets is_complete to the verdict returned;
\* it changes no key other than is_complete.
C26_CheckEffect == [][C26_Step]_vars

C26_Witness ==
    /\ LastNode = "check_completeness"
    /\ state.ticket_info = None
    /\ ~state.is_complete
    /\ calls.assess = 0
    /\ llm_results = <<>>
    /\ pc = "infer_missing_info"

C27_Step ==
    /\ state'.inference_attempts >= state.inference_attempts
    /\ state'.retry_count >= state.retry_count
    /\ state'.inference_attempts # state.inference_attempts =>
          /\ Yielded = "infer_missing_info"
          /\ state'.inference_attempts = state.inference_attempts + 1
    /\ state'.retry_count # state.retry_count =>
          /\ Yielded = "create_jira_ticket"
          /\ ~Last(create_results').success
          /\ state'.retry_count = state.retry_count + 1
    /\ Yielded = "infer_missing_info" =>
          state'.inference_attempts = state.inference_attempts + 1
    /\ (Yielded = "create_jira_ticket" /\ ~Last(create_results').success) =>
          state'.retry_count = state.retry_count + 1

\* C27: along a run inference_attempts and retry_count never decrease and
\* are never reset: inference_attempts changes only in Infer, by +1, and
\* retry_count only in a CreateTicket whose store call failed, by +1;
\* entering the create loop keeps inference_attempts and a successful
\* create after failures keeps retry_count.
C27_CountersMonotone == [][C27_Step]_vars

C27_Witness ==
    /\ LastNode = "create_jira_ticket"
    /\ pc = "verify_ticket"
    /\ Last(create_results).success
    /\ state.retry_count = 3
    /\ state.inference_attempts = 1

\* C28: in every reachable state is_complete true implies ticket_info is
\* not None, and once Extract has set ticket_info no step sets it back to
\* None.
C28_CompleteHasFields ==
    /\ [](state.is_complete => state.ticket_info # None)
    /\ [][state.ticket_info # None => state'.ticket_info # None]_vars
    /\ [](Ran("extract_ticket_info") # {} => state.ticket_info # None)

C28_Witness ==
    /\ state.is_complete
    /\ state.ticket_info # None
    /\ Ran("infer_missing_info") # {}
    /\ pc = "create_jira_ticket"
    /\ state.inference_attempts = 1

\* the create calls among the calls made to the store
CreateCalls == {i \in DOMAIN store_calls : store_calls[i].op = "create_ticket"}

C30_OneTicketPerRun ==
    /\ Cardinality(SuccessfulCreates) <= 1
    /\ \A i \in SuccessfulCreates :
          /\ i = Len(create_results)
          /\ create_results[i].ticket_key # <<>>
          /\ pc # "create_jira_ticket"
          /\ state.jira_ticket_id = Some(create_results[i].ticket_key)
    /\ Cardinality(CreatedEntries) = Cardinality(SuccessfulCreates)
    /\ Cardinality(DOMAIN tickets) <= MaxPriorTickets + 1
    /\ Cardinality(DOMAIN tickets) =
          Cardinality(DOMAIN tickets \ CreatedEntries) + Cardinality(SuccessfulCreates)

C30_Witness ==
    /\ pc = "END"
    /\ Cardinality(SuccessfulCreates) = 1
    /\ Len(create_results) = 3
    /\ Cardinality(CreatedEntries) = 1
    /\ Cardinality(DOMAIN tickets) = MaxPriorTickets + 1

\* the run went through the create/verify path and has ended
CreatePathEnded == pc = "END" /\ LastNode = "format_response"

SuccessSummary == state.final_response.kind = "JIRA ticket created successfully!"

Verified == verify_results # <<>> /\ Last(verify_results).exists

\* C31: at the end of a run that took the create/verify path,
\* final_response is the success summary exactly when error_message is
\* None, which is exactly when a create call succeeded and the verify call
\* reported exists true; a run whose verification failed ends with
\* jira_ticket_id and jira_ticket_url set and a failure response; and
\* jira_ticket_id and jira_ticket_url are always both None or both set.
C31_TerminalOutcome ==
    /\ (state.jira_ticket_id = None) <=> (state.jira_ticket_url = None)
    /\ CreatePathEnded =>
          /\ SuccessSummary <=> state.error_message = None
          /\ state.error_message = None <=> (SuccessfulCreates # {} /\ Verified)
          /\ (verify_results # <<>> /\ ~Verified) =>
                /\ state.jira_ticket_id # None
                /\ state.jira_ticket_url # None
                /\ state.final_response = FailedResponse(VerificationFailed)

C31_Witness ==
    /\ CreatePathEnded
    /\ verify_results # <<>>
    /\ ~Verified
    /\ SuccessfulCreates # {}
    /\ state.jira_ticket_id # None
    /\ state.jira_ticket_url # None
    /\ state.final_response = FailedResponse(VerificationFailed)

\* what the store returned honours its contract: a success carries a
\* non-empty key and url, a failure a non-empty error text
StoreHonoursContract ==
    \A i \in DOMAIN create_results :
        IF create_results[i].success
        THEN create_results[i].ticket_key # <<>> /\ create_results[i].ticket_url # <<>>
        ELSE create_results[i].error # ""

\* C32: with a store that honours its contract, every state in which Format
\* runs has error_message set or jira_ticket_id and jira_ticket_url both
\* set, so Format never writes the generic failure text.
C32_GenericBranchUnreachable ==
    StoreHonoursContract =>
        /\ pc = "format_response" => (ErrorSet(state) \/ TicketSet(state))
        /\ state.final_response # UnknownResponse
        /\ Ran("format_response") # {} =>
              state.final_response.kind \in {"Failed to create ticket: ",
                                             "JIRA ticket created successfully!"}

C32_Witness ==
    /\ StoreHonoursContract
    /\ LastNode = "format_response"
    /\ ErrorSet(state)
    /\ ~TicketSet(state)
    /\ Len(create_results) = MAX_JIRA_RETRIES
    /\ state.final_response.kind = "Failed to create ticket: "

\* the calls of the chain named op that returned
Returned(op) == {i \in DOMAIN llm_results : llm_results[i].op = op}

\* C33: ticket_info is not None whenever CheckCompleteness, Infer or
\* CreateTicket is about to run, Extract having run before them; so every
\* CheckCompleteness asked the analyzer (the None guard was not taken) and
\* no run ends in CreateTicket subscripting None: a run that raised did so
\* in a collaborator call.
C33_FieldsPresent ==
    /\ pc \in {"check_completeness", "infer_missing_info", "create_jira_ticket"} =>
          /\ state.ticket_info # None
          /\ Ran("extract_ticket_info") = {2}
    /\ Cardinality(Ran("check_completeness")) = Cardinality(Returned("assess"))
    /\ pc = "raised" => calls.raised = 1

C33_Witness ==
    /\ pc = "create_jira_ticket"
    /\ state.ticket_info # None
    /\ ~state.is_complete
    /\ Ran("extract_ticket_info") = {2}
    /\ Cardinality(Returned("assess")) = MAX_INFERENCE_ATTEMPTS + 1
    /\ create_results = <<>>

\* a step that called create_ticket / verify_ticket_exists
Created == Len(create_results') = Len(create_results) + 1
VerifiedKey == Len(verify_results') = Len(verify_results) + 1

\* the keys earlier successful creates returned
ReturnedKeys == {create_results[i].ticket_key : i \in SuccessfulCreates}

C34_Step ==
    /\ DOMAIN tickets \subseteq DOMAIN tickets'
    /\ \A k \in DOMAIN tickets : tickets'[k] = tickets[k]
    /\ (Created /\ ~Last(create_results').success) =>
          /\ tickets' = tickets
          /\ ticket_counter' = ticket_counter
    /\ (Created /\ Last(create_results').success) =>
          LET key == Last(create_results').ticket_key
          IN  /\ key \notin DOMAIN tickets
              /\ key \notin ReturnedKeys
              /\ DOMAIN tickets' = DOMAIN tickets \cup {key}
              /\ tickets'[key].key = key
    /\ VerifiedKey =>
          /\ tickets' = tickets
          /\ ticket_counter' = ticket_counter
          /\ Last(store_calls').ticket_key[1] \in ReturnedKeys =>
                Last(verify_results').exists
          /\ Last(verify_results').exists <=>
                Last(store_calls').ticket_key[1] \in DOMAIN tickets

\* C34: with store operations made one at a time the registry is
\* append-only with unique keys: a failed create leaves registry and key
\* counter as they were, a successful create adds exactly one key that no
\* earlier create returned, no operation removes or changes an entry, and
\* verify_ticket_exists on a key an earlier successful create returned
\* reports exists true in every later state.
C34_RegistryAppendOnly ==
    /\ [][C34_Step]_vars
    /\ [](ReturnedKeys \subseteq DOMAIN tickets)
    /\ [](Cardinality(ReturnedKeys) = Cardinality(SuccessfulCreates))

C34_Witness ==
    /\ Cardinality(SuccessfulCreates) = 2
    /\ ~create_results[2].success
    /\ verify_results # <<>>
    /\ Last(verify_results).exists
    /\ Last(store_calls) = VerifyCall(Some(create_results[1].ticket_key))
    /\ Cardinality(DOMAIN tickets) >= 2

C35_Step ==
    (store_mode = "shipped" /\ Yielded \in {"create_jira_ticket", "verify_ticket"}) =>
       /\ failure_rate' = DefaultFailureRate
       /\ Yielded = "create_jira_ticket" =>
             /\ Last(create_results').success
             /\ state'.retry_count = 0
             /\ state'.error_message = None

\* C35: CreateTicket and Verify fetch the shared store with
\* get_jira_client(), which sets its failure_rate to 0.0 before the store
\* call; so whatever rate the store had before, a create call made by
\* CreateTicket against the shipped store never fails, and every such run
\* has retry_count 0 throughout and at its end, without a backoff sleep.
C35_ShippedStoreNeverFails ==
    /\ [][C35_Step]_vars
    /\ [](store_mode = "shipped" =>
             /\ \A i \in DOMAIN create_results : create_results[i].success
             /\ state.retry_count = 0
             /\ sleeps = <<>>
             /\ store_calls # <<>> => failure_rate = DefaultFailureRate)

C35_Witness ==
    /\ store_mode = "shipped"
    /\ pc = "END"
    /\ LastNode = "format_response"
    /\ Len(create_results) = 1
    /\ Len(verify_results) = 1
    /\ failure_rate = DefaultFailureRate
    /\ state.retry_count = 0
    /\ SuccessSummary

====
